---- MODULE Spec2Model ----
(***************************************************************************)
(* LUNAR NEXUS (src/app.js): the astronomical engine of class LunarNexus   *)
(* and the handlers that drive it.                                         *)
(*                                                                         *)
(* Numbers.  JavaScript Numbers are modelled in fixed point: a quantity q  *)
(* is held as the integer floor(q * Scale) unless a definition says        *)
(* otherwise.  Products that would leave the 32-bit integers of the model  *)
(* checker go through MulDiv.  The operator % of JavaScript truncates      *)
(* towards zero (JsRem); \div of TLA+ floors, as Math.floor does.          *)
(***************************************************************************)
EXTENDS Integers, Sequences, FiniteSets, TLC

\* Fixed-point resolution: 1/Scale days, hours, radians, degrees, percent.
Scale == 10000

(***************************************************************************)
(* Bounds of the explored input space.                                     *)
(***************************************************************************)
\* days before / after the new-moon epoch date 2000-01-06 that are explored
DaysBefore == 10
DaysAfter == 8
\* days around the wall-clock date that navigation may reach
ClockSpan == 2

(***************************************************************************)
(* JavaScript arithmetic                                                   *)
(***************************************************************************)
Abs(x) == IF x < 0 THEN -x ELSE x

\* x % n of JavaScript for n > 0: the remainder has the sign of the dividend.
JsRem(x, n) == IF x >= 0 THEN x % n ELSE -((-x) % n)

\* Math.round(num / den), den > 0: floor(x + 0.5).
MathRound(num, den) == (2 * num + den) \div (2 * den)

MathMax(a, b) == IF a >= b THEN a ELSE b
MathMin(a, b) == IF a <= b THEN a ELSE b

\* <<q, r>> with a * b = q * c + r and 0 <= r < c, for b >= 0 and c > 0,
\* computed two decimal digits of b at a time so that no intermediate
\* product leaves 32 bits.
RECURSIVE MulDivRem(_, _, _)
MulDivRem(a, b, c) ==
    IF b = 0 THEN <<0, 0>>
    ELSE LET h == MulDivRem(a, b \div 100, c)
             t == h[2] * 100 + a * (b % 100)
         IN  <<h[1] * 100 + t \div c, t % c>>

\* floor(a * b / c)
MulDiv(a, b, c) == MulDivRem(a, b, c)[1]

\* Math.PI, 2 * Math.PI and Math.PI / 2 in radians * Scale
Pi == 31416
TwoPi == 2 * Pi
HalfPi == Pi \div 2

\* cos on [0, pi/2]: the Taylor polynomial of degree 8 in Horner form.
CosQuadrant(a) ==
    LET x2 == (a * a) \div Scale
        h1 == Scale - x2 \div 56
        h2 == Scale - (x2 * h1) \div (30 * Scale)
        h3 == Scale - (x2 * h2) \div (12 * Scale)
    IN  Scale - (x2 * h3) \div (2 * Scale)

\* Math.cos(x), x in radians * Scale, result * Scale: even, 2*pi-periodic.
MathCos(x) ==
    LET r == Abs(x) % TwoPi
        a == IF r > Pi THEN TwoPi - r ELSE r
        c == IF a > HalfPi THEN -CosQuadrant(Pi - a) ELSE CosQuadrant(a)
    IN  MathMax(-Scale, MathMin(Scale, c))

\* Math.sin(x) = cos(x - pi/2)
MathSin(x) == MathCos(x - HalfPi)

\* Math.tan(x) = sin / cos, result * Scale.  The double nearest to pi/2 is
\* not pi/2, so Math.tan is finite everywhere: where the fixed-point cosine
\* is 0 the tangent is the largest magnitude the quotient can have.
TanMax == Scale * Scale
MathTan(x) ==
    LET s == MathSin(x)
        c == MathCos(x)
        t == IF c = 0 THEN TanMax ELSE (Abs(s) * Scale) \div Abs(c)
    IN  IF (s < 0) = (c < 0) THEN t ELSE -t

\* atan on [0, 1], argument and result * Scale:
\* (pi/4) z + z (1 - z) (0.2447 + 0.0663 z), within 0.002 rad of atan z.
AtanUnit(z) ==
    (z * (Pi \div 4)) \div Scale
        + (((z * (Scale - z)) \div Scale) * (2447 + (663 * z) \div Scale)) \div Scale

\* Math.atan2(y, x) in radians * Scale, in [-Pi, Pi]; min(|y|, |x|) must be
\* at most Scale * 20.  atan2(+-0, x) for x < 0 is +-pi by the sign of the
\* zero; the fixed-point 0 has no sign and is taken as +0.
MathAtan2(y, x) ==
    LET ay == Abs(y)
        ax == Abs(x)
        a  == IF ax = 0 /\ ay = 0 THEN 0
              ELSE IF ay <= ax THEN AtanUnit((ay * Scale) \div ax)
              ELSE HalfPi - AtanUnit((ax * Scale) \div ay)
        b  == IF x < 0 THEN Pi - a ELSE a
    IN  IF y < 0 THEN -b ELSE b

(***************************************************************************)
(* Date: the local calendar fields of a JavaScript Date.  month is 0..11   *)
(* as getMonth() returns it.                                               *)
(***************************************************************************)
Date(y, m, d) == [year |-> y, month |-> m, day |-> d]

IsLeapYear(y) == (y % 4 = 0 /\ y % 100 # 0) \/ y % 400 = 0

DaysInMonth(y, m) ==
    IF m = 1 THEN (IF IsLeapYear(y) THEN 29 ELSE 28)
    ELSE IF m \in {3, 5, 8, 10} THEN 30 ELSE 31

\* new Date(y, m, d) with a day outside the month: the Date rolls over into
\* the neighbouring months.
RECURSIVE MakeDate(_, _, _)
MakeDate(y, m, d) ==
    IF d < 1 THEN
        LET py == IF m = 0 THEN y - 1 ELSE y
            pm == IF m = 0 THEN 11 ELSE m - 1
        IN  MakeDate(py, pm, d + DaysInMonth(py, pm))
    ELSE IF d > DaysInMonth(y, m) THEN
        LET ny == IF m = 11 THEN y + 1 ELSE y
            nm == IF m = 11 THEN 0 ELSE m + 1
        IN  MakeDate(ny, nm, d - DaysInMonth(y, m))
    ELSE Date(y, m, d)

\* date.setDate(n)
setDate(date, n) == MakeDate(date.year, date.month, n)

DateLeq(a, b) ==
    \/ a.year < b.year
    \/ a.year = b.year /\ a.month < b.month
    \/ a.year = b.year /\ a.month = b.month /\ a.day <= b.day

(***************************************************************************)
(* constructor: the phase catalog and the astronomical constants           *)
(***************************************************************************)
\* the catalog with the two quarters in each other's place
PhaseCatalog_QuartersSwapped == <<
    [name |-> "New Moon",        illumination |-> 0,   angle |-> 0],
    [name |-> "Waxing Crescent", illumination |-> 25,  angle |-> 45],
    [name |-> "Last Quarter",    illumination |-> 50,  angle |-> 90],
    [name |-> "Waxing Gibbous",  illumination |-> 75,  angle |-> 135],
    [name |-> "Full Moon",       illumination |-> 100, angle |-> 180],
    [name |-> "Waning Gibbous",  illumination |-> 75,  angle |-> 225],
    [name |-> "First Quarter",   illumination |-> 50,  angle |-> 270],
    [name |-> "Waning Crescent", illumination |-> 25,  angle |-> 315] >>

\* the array literal the constructor assigns to this.moonPhases
PhaseCatalog == <<
    [name |-> "New Moon",        illumination |-> 0,   angle |-> 0],
    [name |-> "Waxing Crescent", illumination |-> 25,  angle |-> 45],
    [name |-> "First Quarter",   illumination |-> 50,  angle |-> 90],
    [name |-> "Waxing Gibbous",  illumination |-> 75,  angle |-> 135],
    [name |-> "Full Moon",       illumination |-> 100, angle |-> 180],
    [name |-> "Waning Gibbous",  illumination |-> 75,  angle |-> 225],
    [name |-> "Last Quarter",    illumination |-> 50,  angle |-> 270],
    [name |-> "Waning Crescent", illumination |-> 25,  angle |-> 315] >>

\* the value of an array read outside its indices
Undefined == [name |-> "undefined", illumination |-> -1, angle |-> -1]

\* astroConstants.  Day lengths are in days * Scale; the two epochs are
\* Julian Days * 10 (both are exact to one decimal); distances in km.
synodicMonth == 295306
averageDistance == 384400
perigeeDistance == 356500
apogeeDistance == 406700
j2000Epoch == 24515450
newMoonEpoch == 24515501
siderealMonth == 273216
\* lunarRadius is in km * 10
lunarRadius == 17374
\* const eccentricity = 0.0549, * Scale
eccentricity == 549

\* the object literal the constructor assigns to this.astroConstants
AstroConstants ==
    [ synodicMonth    |-> synodicMonth,
      siderealMonth   |-> siderealMonth,
      averageDistance |-> averageDistance,
      perigeeDistance |-> perigeeDistance,
      apogeeDistance  |-> apogeeDistance,
      lunarRadius     |-> lunarRadius,
      j2000Epoch      |-> j2000Epoch,
      newMoonEpoch    |-> newMoonEpoch ]

\* The fields of the instance.  The engine reads the first two; every
\* method reaches all four through `this`.
VARIABLES
    astroConstants,  \* this.astroConstants
    moonPhases,      \* this.moonPhases
    selectedDate,    \* this.selectedDate
    userLocation     \* this.userLocation: [lat, lng]

\* this.moonPhases[i] for a JavaScript index i (0-based)
moonPhasesAt(i) == IF i \in 0 .. Len(moonPhases) - 1 THEN moonPhases[i + 1] ELSE Undefined

(***************************************************************************)
(* Utility functions                                                       *)
(***************************************************************************)
\* dateToJulianDay with the 0-based getMonth() taken for the month number
dateToJulianDay_ZeroBasedMonth(date) ==
    LET year  == date.year
        month == date.month
        day   == date.day
        a == (14 - month) \div 12
        y == year + 4800 - a
        m == month + 12 * a - 3
    IN  day + (153 * m + 2) \div 5 + 365 * y
            + y \div 4 - y \div 100 + y \div 400 - 32045

\* dateToJulianDay without the century rule of the Gregorian calendar
dateToJulianDay_EveryFourthYearLeap(date) ==
    LET year  == date.year
        month == date.month + 1
        day   == date.day
        a == (14 - month) \div 12
        y == year + 4800 - a
        m == month + 12 * a - 3
    IN  day + (153 * m + 2) \div 5 + 365 * y + y \div 4 - 32083

dateToJulianDay(date) ==
    LET year  == date.year
        month == date.month + 1
        day   == date.day
        a == (14 - month) \div 12
        y == year + 4800 - a
        m == month + 12 * a - 3
    IN  day + (153 * m + 2) \div 5 + 365 * y
            + y \div 4 - y \div 100 + y \div 400 - 32045

\* whole days between Dec 31 of the previous year, 00:00, and the date
RECURSIVE DaysBeforeMonth(_, _)
DaysBeforeMonth(y, m) ==
    IF m = 0 THEN 0 ELSE DaysBeforeMonth(y, m - 1) + DaysInMonth(y, m - 1)

getDayOfYear(date) == DaysBeforeMonth(date.year, date.month) + date.day

\* n.toString() for an integer n >= 0: its decimal digits, first digit first
RECURSIVE toString(_)
toString(n) == IF n < 10 THEN <<n>> ELSE toString(n \div 10) \o <<n % 10>>

\* digits.padStart(targetLength, fill)
RECURSIVE padStart(_, _, _)
padStart(digits, targetLength, fill) ==
    IF Len(digits) >= targetLength THEN digits
    ELSE padStart(<<fill>> \o digits, targetLength, fill)

\* formatTime with the display hour taken as h % 12
formatTime_HourModulo12(hours) ==
    LET h == hours \div Scale
        m == ((hours - h * Scale) * 60) \div Scale
    IN  [ displayHour |-> h % 12,
          minutes     |-> padStart(toString(m), 2, 0),
          period      |-> IF h >= 12 THEN "PM" ELSE "AM" ]

\* formatTime(hours), hours * Scale: the parts of the string
\* `${displayHour}:${minutes} ${period}`, minutes as its two digits
formatTime(hours) ==
    LET h == hours \div Scale
        m == ((hours - h * Scale) * 60) \div Scale
    IN  [ displayHour |-> IF h = 0 THEN 12 ELSE IF h > 12 THEN h - 12 ELSE h,
          minutes     |-> padStart(toString(m), 2, 0),
          period      |-> IF h >= 12 THEN "PM" ELSE "AM" ]

(***************************************************************************)
(* calculateMoonPhase                                                      *)
(***************************************************************************)
\* (julianDay - newMoonEpoch) % synodicMonth, in days * Scale
daysSinceNewMoon(julianDay) ==
    JsRem((julianDay * 10 - astroConstants.newMoonEpoch) * (Scale \div 10), astroConstants.synodicMonth)

\* (daysSinceNewMoon / synodicMonth) * 2 * Math.PI, in radians * Scale
phaseAngle(dsn) == MulDiv(dsn, TwoPi, astroConstants.synodicMonth)

\* let illumination = (1 - Math.cos(phaseAngle)) * 50, in percent * Scale
illumination(angle) == (Scale - MathCos(angle)) * 50

\* the phase index as the whole days since the new moon, Math.floor(days) % 8
phaseIndex_WholeDays(dsn) == JsRem(dsn \div Scale, 8)

\* Math.floor((daysSinceNewMoon / synodicMonth) * 8) % 8
phaseIndex(dsn) == JsRem((dsn * 8) \div astroConstants.synodicMonth, 8)

\* ((julianDay - j2000Epoch) / 365.25) * 2 * Math.PI, in radians * Scale
anomaly(julianDay) == MulDiv((julianDay * 10 - astroConstants.j2000Epoch) * 10, TwoPi, 36525)

\* distance with the eccentricity a decimal place off (0.549)
distance_TenfoldEccentricity(julianDay) ==
    astroConstants.averageDistance * 100
        - MulDiv(MathCos(anomaly(julianDay)), astroConstants.averageDistance * eccentricity, Scale * 10)

\* averageDistance * (1 - eccentricity * Math.cos(anomaly)), in km * 100
distance(julianDay) ==
    astroConstants.averageDistance * 100
        - MulDiv(MathCos(anomaly(julianDay)), astroConstants.averageDistance * eccentricity, Scale * 100)

\* (synodicMonth / 8) - (daysSinceNewMoon % (synodicMonth / 8)), in days * Scale
daysToNextPhase(dsn) == astroConstants.synodicMonth \div 8 - JsRem(dsn, astroConstants.synodicMonth \div 8)

\* (phaseIndex + 1) % 8
nextPhaseIndex(index) == JsRem(index + 1, 8)

\* the returned illumination as (1 - cos) * 100, rounded and not clamped
illuminationPercent_Unclamped(angle) == MathRound(illumination(angle) * 2, Scale)

\* Math.max(0, Math.min(100, Math.round(illumination)))
illuminationPercent(angle) == MathMax(0, MathMin(100, MathRound(illumination(angle), Scale)))

\* The object calculateMoonPhase returns (angularSize is left out: it is
\* display-only and no other code reads it).  illumination is in whole
\* percent, distance in whole km; age and daysToNext are in days * Scale
\* and are multiples of a tenth of a day; phaseIndex and nextPhaseIndex are
\* the array indices phase and nextPhase were read at.
calculateMoonPhase(date) ==
    LET julianDay == dateToJulianDay(date)
        dsn       == daysSinceNewMoon(julianDay)
        index     == phaseIndex(dsn)
        angle     == phaseAngle(dsn)
    IN  [ phaseIndex     |-> index,
          phase          |-> moonPhasesAt(index).name,
          illumination   |-> illuminationPercent(angle),
          age            |-> MathRound(dsn * 10, Scale) * (Scale \div 10),
          distance       |-> MathRound(distance(julianDay), 100),
          nextPhaseIndex |-> nextPhaseIndex(index),
          nextPhase      |-> moonPhasesAt(nextPhaseIndex(index)).name,
          daysToNext     |-> MathRound(daysToNextPhase(dsn) * 10, Scale) * (Scale \div 10),
          phaseAngle     |-> angle ]

(***************************************************************************)
(* calculateMoonTimes.  lat and lng are in degrees * Scale, times in       *)
(* hours * Scale.                                                          *)
(***************************************************************************)
\* 6 + (moonData.age / synodicMonth) * 24
baseTime(age) == 6 * Scale + MulDiv(age, 24 * Scale, astroConstants.synodicMonth)

\* the offset taken from this.userLocation.lng instead of the argument
timeZoneOffset_FromField(lng) == userLocation.lng \div 15

\* lng / 15
timeZoneOffset(lng) == lng \div 15

\* Math.sin(lat * Math.PI / 180) * 2
latitudeAdjustment(lat) == MathSin(MulDiv(lat, Pi, 180 * Scale)) * 2

\* Math.sin((getDayOfYear(date) / 365) * 2 * Math.PI) * 0.5
seasonalAdjustment(date) == MathSin((getDayOfYear(date) * TwoPi) \div 365) \div 2

\* let riseTime = baseTime - timeZoneOffset + latitudeAdjustment + seasonalAdjustment
riseTime(date, lat, lng) ==
    baseTime(calculateMoonPhase(date).age) - timeZoneOffset(lng)
        + latitudeAdjustment(lat) + seasonalAdjustment(date)

\* setTime with 12 hours above the horizon
setTime_TwelveHours(rise) == rise + 12 * Scale

\* let setTime = riseTime + 12.4
setTime(rise) == rise + 124 * (Scale \div 10)

\* the normalization as a single remainder, t % 24
normalizeTime_Truncating(t) == JsRem(t, 24 * Scale)

\* ((t % 24) + 24) % 24
normalizeTime(t) == JsRem(JsRem(t, 24 * Scale) + 24 * Scale, 24 * Scale)

\* calculateMoonTimes with bestViewing taken from the rise and set times
\* before their normalization
calculateMoonTimes_BeforeNormalization(date, lat, lng) ==
    LET rise == riseTime(date, lat, lng)
        best == JsRem((rise + setTime(rise)) \div 2, 24 * Scale)
    IN  [ rise            |-> formatTime(normalizeTime(rise)),
          set             |-> formatTime(normalizeTime(setTime(rise))),
          bestViewingTime |-> formatTime(best),
          riseRaw         |-> normalizeTime(rise),
          setRaw          |-> normalizeTime(setTime(rise)),
          bestViewing     |-> best ]

\* The object calculateMoonTimes returns.  bestViewing is the number handed
\* to formatTime, bestViewing % 24, and bestViewingTime the text made of it
\* (the field the code names bestViewing).
calculateMoonTimes(date, lat, lng) ==
    LET rise == riseTime(date, lat, lng)
        riseRaw == normalizeTime(rise)
        setRaw  == normalizeTime(setTime(rise))
        best    == JsRem((riseRaw + setRaw) \div 2, 24 * Scale)
    IN  [ rise            |-> formatTime(riseRaw),
          set             |-> formatTime(setRaw),
          bestViewingTime |-> formatTime(best),
          riseRaw         |-> riseRaw,
          setRaw          |-> setRaw,
          bestViewing     |-> best ]

(***************************************************************************)
(* calculateLunarPosition.  Angles in degrees are degrees * Scale, angles  *)
(* in radians are radians * Scale.                                         *)
(***************************************************************************)
\* 218.3164477 + 481267.88123421 * T with T = (julianDay - j2000Epoch) / 36525
L(julianDay) ==
    2183164 + MulDiv(julianDay * 10 - astroConstants.j2000Epoch, 481267881, 36525)

\* (L % 360) * Math.PI / 180
Lrad(julianDay) == MulDiv(JsRem(L(julianDay), 360 * Scale), Pi, 180 * Scale)

\* ((GMST + lng) % 360) * Math.PI / 180 with
\* GMST = 280.46061837 + 360.98564736629 * (julianDay - j2000Epoch).
\* GMST + lng is days * 360 + rest for whole days: the remainder is that of
\* rest, with the sign of GMST + lng, which is positive from J2000 on.
LST(julianDay, lng) ==
    LET days     == (julianDay * 10 - astroConstants.j2000Epoch) \div 10
        rest     == 2804606 + MulDiv(days, 98564737, Scale) + lng
        negative == days < 0 /\ rest + days * 360 * Scale < 0
        floored  == rest % (360 * Scale)
        degrees  == IF negative /\ floored # 0 THEN floored - 360 * Scale ELSE floored
    IN  MulDiv(degrees, Pi, 180 * Scale)

\* const hourAngle = LST - Lrad
hourAngle(julianDay, lng) == LST(julianDay, lng) - Lrad(julianDay)

\* Math.atan2(-Math.sin(hourAngle),
\*            Math.cos(latRad) * Math.tan(Lrad) - Math.sin(latRad) * Math.cos(hourAngle))
azimuthRadians(julianDay, lat, lng) ==
    LET latRad == MulDiv(lat, Pi, 180 * Scale)
        h      == hourAngle(julianDay, lng)
        tanL   == MathTan(Lrad(julianDay))
        x1     == MulDiv(MathCos(latRad), Abs(tanL), Scale)
        x2     == (MathSin(latRad) * MathCos(h)) \div Scale
    IN  MathAtan2(-MathSin(h), (IF tanL < 0 THEN -x1 ELSE x1) - x2)

\* radians * 180 / Math.PI
toDegrees(radians) == MulDiv(radians, 180 * Scale, Pi)

\* the azimuth as the plain remainder, deg % 360
normalizeAzimuth_Remainder(deg) == JsRem(deg, 360 * Scale)

\* ((azimuth * 180 / Math.PI) + 360) % 360
normalizeAzimuth(deg) == JsRem(deg + 360 * Scale, 360 * Scale)

\* The azimuth and rightAscension of the object calculateLunarPosition
\* returns.  altitude and declination, the two arcsines, are left out: they
\* are independent of the other two fields and no definition below reads
\* them.
calculateLunarPosition(date, lat, lng) ==
    LET julianDay == dateToJulianDay(date)
    IN  [ azimuth        |-> normalizeAzimuth(toDegrees(azimuthRadians(julianDay, lat, lng))),
          rightAscension |-> toDegrees(Lrad(julianDay)) ]

(***************************************************************************)
(* The inputs the environment supplies                                     *)
(***************************************************************************)
\* the date of the reference new moon (Julian Day 2451550) and the window
\* of dates around it
EpochDate == Date(2000, 0, 6)
MinDate == setDate(EpochDate, EpochDate.day - DaysBefore)
MaxDate == setDate(EpochDate, EpochDate.day + DaysAfter)

\* new Date(): the wall clock reads one of these dates
Today == Date(2026, 10, 4)
ClockDates == {Today}
ClockMin == setDate(Today, Today.day - ClockSpan)
ClockMax == setDate(Today, Today.day + ClockSpan)

\* dates far from both windows that are typed in but not navigated from:
\* half an anomalistic year after J2000, a leap day, and a day more than 17
\* days before J2000
FarDates == {Date(2000, 6, 2), Date(2000, 1, 29), Date(1999, 11, 1)}

InWindow(d) ==
    \/ DateLeq(MinDate, d) /\ DateLeq(d, MaxDate)
    \/ DateLeq(ClockMin, d) /\ DateLeq(d, ClockMax)
    \/ d \in FarDates

\* new Date(value + 'T12:00:00') for the values of #dateInput; a cleared
\* field gives an Invalid Date, whose getTime() is NaN
InvalidDate == Date(0, 0, 0)
InputDates ==
    {Date(1999, 11, 31), Date(2000, 0, 1), Date(2000, 0, 6), Date(2000, 0, 7), Today}
        \cup FarDates
DateInputs == InputDates \cup {InvalidDate}

\* the offsets of navigateDay: the arrow keys and day buttons (+-1), the
\* week buttons (+-7) and the .quick-date-btn elements (data-offset)
QuickOffset == 14
NavOffsets == {-7, -1, 1, 7, -QuickOffset, QuickOffset}

\* parseFloat of the latitude / longitude fields, in degrees * Scale;
\* NaN for a field that does not start with a number
Num(v) == [nan |-> FALSE, num |-> v]
NaN == [nan |-> TRUE, num |-> 0]
isNaN(x) == x.nan
LatInputs == {Num(-90 * Scale), Num(90 * Scale), Num(91 * Scale), NaN}
LngInputs == {Num(-180 * Scale), Num(180 * Scale), Num(-181 * Scale), NaN}

\* the coordinates navigator.geolocation reports
GeoLats == {515074}
GeoLngs == {-1278}

(***************************************************************************)
(* State                                                                   *)
(***************************************************************************)
VARIABLES
    stage,         \* "constructed": init() is suspended at its await; "ready"
    elements,      \* TRUE iff the document has the elements cacheElements looks up
    moonData,      \* the moonData of the last updateDisplay
    moonTimes,     \* the moonTimes of the last updateDisplay
    lunarPosition, \* the lunarPosition of the last updateDisplay
    forecast,      \* the cards of #forecastGrid, in order
    realTime,      \* TRUE iff startRealTimeUpdates has set its timers
    failed,        \* TRUE iff the last handler ended with an uncaught TypeError
    moonCamera,    \* this.moonCamera: null, or the camera with its position.z
    moonMesh,      \* this.moonMesh: null, or the mesh with its rotation.y in units of PI / 4
    toast,         \* the message of the last showToast
    textContent,   \* the text of the element of one data card
    timers,        \* the values of the pending setTimeout callbacks of the card, oldest first
    lastValue      \* the value of the most recent updateDataCard call for the card

viewVars == <<moonCamera, moonMesh, toast, textContent, timers, lastValue>>

vars == <<astroConstants, moonPhases, stage, elements, selectedDate, userLocation,
          moonData, moonTimes, lunarPosition, forecast, realTime, failed,
          moonCamera, moonMesh, toast, textContent, timers, lastValue>>

\* null, and an object with one numeric property
Null == [null |-> TRUE, value |-> 0]
Object(v) == [null |-> FALSE, value |-> v]

\* the text of the card's element in the document, and lastValue before the
\* first updateDataCard
InitialText == "--"
NoCall == ""

\* what the display shows before the first updateDisplay
NoMoonData ==
    [ phaseIndex |-> 0, phase |-> "", illumination |-> 0, age |-> 0, distance |-> 0,
      nextPhaseIndex |-> 0, nextPhase |-> "", daysToNext |-> 0, phaseAngle |-> 0 ]
NoTime == [displayHour |-> 0, minutes |-> <<>>, period |-> ""]
NoMoonTimes ==
    [ rise |-> NoTime, set |-> NoTime, bestViewingTime |-> NoTime,
      riseRaw |-> 0, setRaw |-> 0, bestViewing |-> 0 ]
NoLunarPosition == [azimuth |-> 0, rightAscension |-> 0]

Init ==
    /\ moonPhases = PhaseCatalog
    /\ astroConstants = AstroConstants
    /\ stage = "constructed"
    /\ elements \in BOOLEAN
    /\ selectedDate \in ClockDates
    /\ userLocation = [lat |-> 407128, lng |-> -740060]
    /\ moonData = NoMoonData
    /\ moonTimes = NoMoonTimes
    /\ lunarPosition = NoLunarPosition
    /\ forecast = <<>>
    /\ realTime = FALSE
    /\ failed = FALSE
    /\ moonCamera = Null
    /\ moonMesh = Null
    /\ toast = ""
    /\ textContent = InitialText
    /\ timers = <<>>
    /\ lastValue = NoCall

(***************************************************************************)
(* User Interface Management                                               *)
(***************************************************************************)
\* updateDisplay reads moonData.phase.name when #currentPhaseName exists and
\* moonData.nextPhase.name always: a TypeError when the entry is undefined.
updateDisplayThrows(data) ==
    \/ elements /\ data.phase = Undefined.name
    \/ data.nextPhase = Undefined.name

\* the forecast starting at the selected date itself
forecastCard_FromSelectedDate(date, i) ==
    LET forecastDate == setDate(date, date.day + i - 1)
        data == calculateMoonPhase(forecastDate)
    IN  [ date |-> forecastDate, phase |-> data.phase,
          illumination |-> data.illumination ]

\* the card createForecastCard builds for day i of the forecast
forecastCard(date, i) ==
    LET forecastDate == setDate(date, date.day + i)
        data == calculateMoonPhase(forecastDate)
    IN  [ date |-> forecastDate, phase |-> data.phase,
          illumination |-> data.illumination ]

\* createForecastCard reads moonData.phase.emoji: the loop of
\* generateForecast ends at the first day whose phase is undefined.
RECURSIVE forecastCards(_, _)
forecastCards(date, i) ==
    IF i > 7 THEN <<>>
    ELSE LET card == forecastCard(date, i)
         IN  IF card.phase = Undefined.name THEN <<>>
             ELSE <<card>> \o forecastCards(date, i + 1)

\* updateDisplay() for the date and location given
updateDisplay(date, loc) ==
    /\ moonData' = calculateMoonPhase(date)
    /\ moonTimes' = calculateMoonTimes(date, loc.lat, loc.lng)
    /\ lunarPosition' = calculateLunarPosition(date, loc.lat, loc.lng)

\* generateForecast() for the date given; sets failed
generateForecast(date) ==
    IF elements
    THEN LET cards == forecastCards(date, 1)
         IN  forecast' = cards /\ failed' = (Len(cards) < 7)
    ELSE /\ forecast' = forecast
         /\ failed' = FALSE

\* this.updateDisplay(); this.generateForecast(); as the date handlers call
\* them: an exception in the first ends the handler.
Refresh(date, loc) ==
    /\ updateDisplay(date, loc)
    /\ IF updateDisplayThrows(moonData')
       THEN failed' = TRUE /\ forecast' = forecast
       ELSE generateForecast(date)

\* init() after await this.initialize3DMoon()
init ==
    /\ stage = "constructed"
    /\ stage' = "ready"
    /\ Refresh(selectedDate, userLocation)
    /\ realTime' = ~failed'
    /\ UNCHANGED <<astroConstants, moonPhases, elements, selectedDate, userLocation>>
    /\ UNCHANGED viewVars

(***************************************************************************)
(* Navigation and Interaction                                              *)
(***************************************************************************)
handleDateChange(value) ==
    /\ stage = "ready" /\ elements
    /\ IF value = InvalidDate
       THEN failed' = FALSE /\ UNCHANGED <<selectedDate, moonData, moonTimes, lunarPosition, forecast>>
       ELSE selectedDate' = value /\ Refresh(value, userLocation)
    /\ UNCHANGED <<astroConstants, moonPhases, stage, elements, userLocation, realTime>>
    /\ UNCHANGED viewVars

navigateDay(offset) ==
    /\ stage = "ready"
    /\ elements \/ offset \in {-1, 1}
    /\ InWindow(setDate(selectedDate, selectedDate.day + offset))
    /\ selectedDate' = setDate(selectedDate, selectedDate.day + offset)
    /\ Refresh(selectedDate', userLocation)
    /\ UNCHANGED <<astroConstants, moonPhases, stage, elements, userLocation, realTime>>
    /\ UNCHANGED viewVars

\* goToToday that also moves the new-moon epoch of astroConstants to today
goToToday_MovesEpoch(now) ==
    /\ stage = "ready"
    /\ selectedDate' = now
    /\ astroConstants' = [astroConstants EXCEPT !.newMoonEpoch = dateToJulianDay(now) * 10]
    /\ Refresh(now, userLocation)
    /\ UNCHANGED <<moonPhases, stage, elements, userLocation, realTime>>
    /\ UNCHANGED viewVars

goToToday(now) ==
    /\ stage = "ready"
    /\ selectedDate' = now
    /\ Refresh(now, userLocation)
    /\ UNCHANGED <<astroConstants, moonPhases, stage, elements, userLocation, realTime>>
    /\ UNCHANGED viewVars

\* the click listener createForecastCard gives card i
forecastCardClick(i) ==
    /\ stage = "ready"
    /\ i \in 1 .. Len(forecast)
    /\ InWindow(forecast[i].date)
    /\ selectedDate' = forecast[i].date
    /\ Refresh(forecast[i].date, userLocation)
    /\ UNCHANGED <<astroConstants, moonPhases, stage, elements, userLocation, realTime>>
    /\ UNCHANGED viewVars

\* the timer with an engine that writes the longitude, brought into
\* [0, 360), back into the caller's location
realTimeUpdate_WritesLongitude(now) ==
    /\ stage = "ready" /\ realTime
    /\ userLocation' = [userLocation EXCEPT !.lng = userLocation.lng % (360 * Scale)]
    /\ IF selectedDate = now
       THEN /\ updateDisplay(selectedDate, userLocation)
            /\ failed' = updateDisplayThrows(moonData')
       ELSE failed' = FALSE /\ UNCHANGED <<moonData, moonTimes, lunarPosition>>
    /\ UNCHANGED <<astroConstants, moonPhases, stage, elements, selectedDate, forecast, realTime>>
    /\ UNCHANGED viewVars

\* the one-minute timer of startRealTimeUpdates
realTimeUpdate(now) ==
    /\ stage = "ready" /\ realTime
    /\ IF selectedDate = now
       THEN /\ updateDisplay(selectedDate, userLocation)
            /\ failed' = updateDisplayThrows(moonData')
       ELSE failed' = FALSE /\ UNCHANGED <<moonData, moonTimes, lunarPosition>>
    /\ UNCHANGED <<astroConstants, moonPhases, stage, elements, selectedDate, userLocation, forecast, realTime>>
    /\ UNCHANGED viewVars

(***************************************************************************)
(* Location Management                                                     *)
(***************************************************************************)
\* updateLocation that tests the latitude only
updateLocation_LatitudeOnly(lat, lng) ==
    /\ stage = "ready" /\ elements
    /\ IF ~isNaN(lat) /\ lat.num >= -90 * Scale /\ lat.num <= 90 * Scale
       THEN /\ userLocation' = [lat |-> lat.num, lng |-> lng.num]
            /\ updateDisplay(selectedDate, userLocation')
            /\ failed' = updateDisplayThrows(moonData')
       ELSE failed' = FALSE /\ UNCHANGED <<userLocation, moonData, moonTimes, lunarPosition>>
    /\ UNCHANGED <<astroConstants, moonPhases, stage, elements, selectedDate, forecast, realTime>>
    /\ UNCHANGED viewVars

updateLocation(lat, lng) ==
    /\ stage = "ready" /\ elements
    /\ IF /\ ~isNaN(lat) /\ ~isNaN(lng)
          /\ lat.num >= -90 * Scale /\ lat.num <= 90 * Scale
          /\ lng.num >= -180 * Scale /\ lng.num <= 180 * Scale
       THEN /\ userLocation' = [lat |-> lat.num, lng |-> lng.num]
            /\ updateDisplay(selectedDate, userLocation')
            /\ failed' = updateDisplayThrows(moonData')
       ELSE failed' = FALSE /\ UNCHANGED <<userLocation, moonData, moonTimes, lunarPosition>>
    /\ UNCHANGED <<astroConstants, moonPhases, stage, elements, selectedDate, forecast, realTime>>
    /\ UNCHANGED viewVars

\* detectLocation() once getCurrentPosition has answered with a position
detectLocation(lat, lng) ==
    /\ stage = "ready" /\ elements
    /\ userLocation' = [lat |-> lat, lng |-> lng]
    /\ updateDisplay(selectedDate, userLocation')
    /\ failed' = updateDisplayThrows(moonData')
    /\ UNCHANGED <<astroConstants, moonPhases, stage, elements, selectedDate, forecast, realTime>>
    /\ UNCHANGED viewVars

Next ==
    \/ init
    \/ \E value \in DateInputs : handleDateChange(value)
    \/ \E offset \in NavOffsets : navigateDay(offset)
    \/ \E now \in ClockDates : goToToday(now)
    \/ \E i \in 1 .. 7 : forecastCardClick(i)
    \/ \E now \in ClockDates : realTimeUpdate(now)
    \/ \E lat \in LatInputs, lng \in LngInputs : updateLocation(lat, lng)
    \/ \E lat \in GeoLats, lng \in GeoLngs : detectLocation(lat, lng)

Spec == Init /\ [][Next]_vars

(***************************************************************************)
(* 3D Moon Visualization and the data cards.  Spec follows the engine and  *)
(* the handlers that select a date or a location; SpecView starts from the *)
(* same constructed object and follows the handlers of the 3D view and the *)
(* deferred writes of one data card.                                       *)
(***************************************************************************)
\* every variable of the engine's display but stage
engineVars == <<astroConstants, moonPhases, elements, selectedDate, userLocation,
                moonData, moonTimes, lunarPosition, forecast, realTime, failed>>

\* how initialize3DMoon ends: without canvas or THREE, with an exception of
\* new THREE.WebGLRenderer (after the camera was created, before the mesh),
\* or with the scene set up
Outcomes == {"unavailable", "throws", "ready"}

\* init() up to the end of await this.initialize3DMoon(); a new
\* PerspectiveCamera is at z = 0
initialize3DMoon(outcome) ==
    /\ stage = "constructed"
    /\ stage' = "ready"
    /\ IF ~elements \/ outcome = "unavailable"
       THEN UNCHANGED <<moonCamera, moonMesh, toast>>
       ELSE IF outcome = "throws"
            THEN /\ moonCamera' = Object(0)
                 /\ moonMesh' = Null
                 /\ toast' = "3D Moon rendering unavailable"
            ELSE /\ moonCamera' = Object(8)
                 /\ moonMesh' = Object(0)
                 /\ toast' = toast
    /\ UNCHANGED <<textContent, timers, lastValue>>
    /\ UNCHANGED engineVars

\* the rotation of the mesh counts the steps of PI / 4
MaxRotations == 2
rotateMoon ==
    /\ stage = "ready" /\ elements
    /\ IF ~moonMesh.null
       THEN /\ moonMesh.value < MaxRotations
            /\ moonMesh' = Object(moonMesh.value + 1)
            /\ toast' = "Moon rotated 45"
       ELSE /\ moonMesh' = moonMesh
            /\ toast' = "3D Moon not available"
    /\ UNCHANGED <<stage, moonCamera, textContent, timers, lastValue>>
    /\ UNCHANGED engineVars

zoomMoon ==
    /\ stage = "ready" /\ elements
    /\ IF ~moonCamera.null
       THEN LET currentZ == moonCamera.value
                newZ == IF currentZ > 6 THEN 8 ELSE 5
            IN  /\ moonCamera' = Object(newZ)
                /\ toast' = IF newZ < currentZ THEN "Zoom in" ELSE "Zoom out"
       ELSE /\ moonCamera' = moonCamera
            /\ toast' = "3D Moon not available"
    /\ UNCHANGED <<stage, moonMesh, textContent, timers, lastValue>>
    /\ UNCHANGED engineVars

resetMoonView ==
    /\ stage = "ready" /\ elements
    /\ IF ~moonCamera.null /\ ~moonMesh.null
       THEN /\ moonCamera' = Object(8)
            /\ moonMesh' = Object(0)
            /\ toast' = "3D Moon view reset"
       ELSE /\ UNCHANGED <<moonCamera, moonMesh>>
            /\ toast' = "3D Moon not available"
    /\ UNCHANGED <<stage, textContent, timers, lastValue>>
    /\ UNCHANGED engineVars

\* the texts updateDisplay passes for the card, and the number of
\* callbacks that may be pending at once
CardValues == {"12%", "19%"}
MaxPending == 3

\* updateDataCard(elementId, value) for the card's element
updateDataCard(value) ==
    /\ stage = "ready"
    /\ Len(timers) < MaxPending
    /\ lastValue' = value
    /\ timers' = IF elements /\ textContent # value THEN Append(timers, value) ELSE timers
    /\ UNCHANGED <<stage, moonCamera, moonMesh, toast, textContent>>
    /\ UNCHANGED engineVars

\* the callback updateDataCard handed to setTimeout(..., 100); callbacks
\* with the same delay run in the order of their setTimeout calls
dataCardTimeout ==
    /\ timers # <<>>
    /\ textContent' = Head(timers)
    /\ timers' = Tail(timers)
    /\ UNCHANGED <<stage, moonCamera, moonMesh, toast, lastValue>>
    /\ UNCHANGED engineVars

NextView ==
    \/ \E outcome \in Outcomes : initialize3DMoon(outcome)
    \/ rotateMoon
    \/ zoomMoon
    \/ resetMoonView
    \/ \E value \in CardValues : updateDataCard(value)
    \/ dataCardTimeout

SpecView == Init /\ [][NextView]_vars

(***************************************************************************)
(* Properties                                                              *)
(***************************************************************************)
\* the display shows the results for the selected date and location
Displayed ==
    /\ stage = "ready"
    /\ moonData = calculateMoonPhase(selectedDate)
    /\ moonTimes = calculateMoonTimes(selectedDate, userLocation.lat, userLocation.lng)
    /\ lunarPosition = calculateLunarPosition(selectedDate, userLocation.lat, userLocation.lng)

\* C1: for every date calculateMoonPhase is called with, the phase index is
\* in 0..7 and the returned phase is a catalog entry, never undefined.
C1_PhaseIndexInRange ==
    stage = "ready" =>
        /\ moonData.phaseIndex \in 0 .. 7
        /\ moonData.phase # Undefined.name
        /\ \A i \in 1 .. Len(forecast) : forecast[i].phase # Undefined.name

\* C2: for every date, daysSinceNewMoon is in [0, synodicMonth) and the
\* returned age is never negative.
C2_AgeNonNegative ==
    stage = "ready" =>
        /\ daysSinceNewMoon(dateToJulianDay(selectedDate)) \in 0 .. synodicMonth - 1
        /\ moonData.age >= 0

\* the Gregorian Julian-Day-Number formula of the specification, for a
\* month number 1..12
ReferenceJDN(year, month, day) ==
    LET a == (14 - month) \div 12
        y == year + 4800 - a
        m == month + 12 * a - 3
    IN  day + (153 * m + 2) \div 5 + 365 * y + y \div 4 - y \div 100 + y \div 400 - 32045

MatchesReference(date) ==
    dateToJulianDay(date) = ReferenceJDN(date.year, date.month + 1, date.day)

\* every day of a few whole years (a non-leap century year, a leap century
\* year, their neighbours and the present)
SweepYears == {1899, 1900, 1999, 2000, 2001, 2024, 2026}
SweepMatchesReference ==
    \A y \in SweepYears : \A m \in 0 .. 11 : \A d \in 1 .. DaysInMonth(y, m) :
        MatchesReference(Date(y, m, d))

\* C3: dateToJulianDay equals the reference Julian-Day-Number formula for
\* every date the engine is given (and every day of the swept years), and
\* is 2451545 for 2000-01-01.
C3_JulianDayMatchesReference ==
    /\ MatchesReference(selectedDate)
    /\ \A i \in 1 .. Len(forecast) : MatchesReference(forecast[i].date)
    /\ SweepMatchesReference
    /\ dateToJulianDay(Date(2000, 0, 1)) = 2451545

W_C3_J2000Displayed ==
    /\ Displayed
    /\ selectedDate = Date(2000, 0, 1)
    /\ dateToJulianDay(selectedDate) = 2451545

\* C4: after any sequence of date changes, updateDisplay and
\* generateForecast complete: no handler ends in an error.
C4_NoErrorState == ~failed

\* C5: riseRaw and setRaw of calculateMoonTimes are both in [0, 24).
C5_RiseSetInRange ==
    stage = "ready" =>
        /\ moonTimes.riseRaw \in 0 .. 24 * Scale - 1
        /\ moonTimes.setRaw \in 0 .. 24 * Scale - 1

\* the rise time before normalization is below -12 h: one remainder alone
\* would leave it negative
W_C5_NegativeRiseTime ==
    /\ Displayed
    /\ riseTime(selectedDate, userLocation.lat, userLocation.lng) < -12 * Scale

\* C6: setRaw equals (riseRaw + 12.4) mod 24 for the normalized riseRaw.
C6_SetIsRisePlus124 ==
    stage = "ready" =>
        moonTimes.setRaw = (moonTimes.riseRaw + 124 * (Scale \div 10)) % (24 * Scale)

\* the rise time before normalization is past 24 h and the set time wraps
\* once more than the rise time does
W_C6_RiseTimePastMidnight ==
    /\ Displayed
    /\ riseTime(selectedDate, userLocation.lat, userLocation.lng) > 24 * Scale
    /\ moonTimes.setRaw < moonTimes.riseRaw

\* the rounded distance for every day of a whole anomalistic cycle
\* (365.25 days from J2000), where cos(anomaly) runs from 1 to -1 and back;
\* evaluated once, on the instance as the constructor leaves it
SweepDistanceInRange ==
    \A k \in 0 .. 366 :
        MathRound(distance(j2000Epoch \div 10 + k), 100)
            \in perigeeDistance .. apogeeDistance

\* C7: the integer distance calculateMoonPhase returns is within
\* [perigeeDistance, apogeeDistance].
C7_DistanceInRange ==
    /\ stage = "ready" => moonData.distance \in perigeeDistance .. apogeeDistance
    /\ stage = "constructed" => SweepDistanceInRange

\* the distance half a cycle after J2000, at the far end of the ellipse
W_C7_NearApogee ==
    /\ Displayed
    /\ selectedDate = Date(2000, 6, 2)
    /\ moonData.distance > 405000

\* the returned illumination for every whole day within two synodic months
\* of the new-moon epoch, before and after it
SweepIlluminationInRange ==
    \A k \in -60 .. 60 :
        illuminationPercent(phaseAngle(daysSinceNewMoon(newMoonEpoch \div 10 + k)))
            \in 0 .. 100

\* C8: the illumination calculateMoonPhase returns is an integer in
\* [0, 100], also where phaseAngle is negative.
C8_IlluminationInRange ==
    /\ stage = "ready" => moonData.illumination \in 0 .. 100
    /\ stage = "constructed" => SweepIlluminationInRange

\* a date before the epoch, past the quarter: phaseAngle below -pi/2
W_C8_NegativePhaseAngle ==
    /\ Displayed
    /\ moonData.phaseAngle < -HalfPi
    /\ moonData.illumination > 50

\* C9: stepping the date forward by one day, the phase index stays or
\* advances by one position cyclically, and across a New Moon it goes from
\* 7 to 0.
C9_NeverSkipsPhase ==
    [][ (Displayed /\ stage' = "ready"
            /\ selectedDate' = setDate(selectedDate, selectedDate.day + 1))
        => /\ \/ moonData'.phaseIndex = moonData.phaseIndex
              \/ moonData'.phaseIndex = (moonData.phaseIndex + 1) % 8
           /\ (moonData'.phaseIndex = 0 /\ moonData.phaseIndex # 0)
                  => moonData.phaseIndex = 7 ]_vars

\* C10: on 2000-01-06 the phase index is 0 or its cyclic neighbour 7, and
\* the illumination is at most 1%.
C10_EpochDateNearNewMoon ==
    (Displayed /\ selectedDate = EpochDate) =>
        /\ moonData.phaseIndex \in {0, 7}
        /\ moonData.illumination <= 1

\* the phase index calculateMoonPhase returns `days` calendar days after date
PhaseIndexAfter(date, days) ==
    calculateMoonPhase(setDate(date, date.day + days)).phaseIndex

\* C11 (as stated): calculateMoonPhase gives the identical phase index for
\* a date and for the date one synodic month later, which is 29 or 30
\* calendar days after it.
C11_IdenticalPhaseIndex ==
    Displayed =>
        \A days \in {29, 30} : PhaseIndexAfter(selectedDate, days) = moonData.phaseIndex

\* C11 (amended): the phase index 29 days later is the same or one position
\* behind, 30 days later the same or one position ahead, both modulo 8.
C11_PhaseIndexWithinOne ==
    Displayed =>
        /\ (PhaseIndexAfter(selectedDate, 29) - moonData.phaseIndex) % 8 \in {0, 7}
        /\ (PhaseIndexAfter(selectedDate, 30) - moonData.phaseIndex) % 8 \in {0, 1}

\* a date after the epoch whose index is in 0..7 and is one lower 29 days on
W_C11_OneBehind ==
    /\ Displayed
    /\ moonData.phaseIndex \in 1 .. 7
    /\ PhaseIndexAfter(selectedDate, 29) = moonData.phaseIndex - 1
    /\ PhaseIndexAfter(selectedDate, 30) = moonData.phaseIndex

\* what Math.atan2 can return, in degrees: the ends of [-180, 180], their
\* neighbours and the values around 0
AtanDegrees ==
    {-180 * Scale, 1 - 180 * Scale, -90 * Scale, -1, 0, 1, 90 * Scale,
     180 * Scale - 1, 180 * Scale}

\* C12: the azimuth calculateLunarPosition returns is in [0, 360); the
\* normalization takes every angle of [-180, 180] degrees, the two ends
\* included, into that range.
C12_AzimuthInRange ==
    /\ stage = "ready" => lunarPosition.azimuth \in 0 .. 360 * Scale - 1
    /\ \A deg \in AtanDegrees : normalizeAzimuth(deg) \in 0 .. 360 * Scale - 1
    /\ normalizeAzimuth(-180 * Scale) = 180 * Scale
    /\ normalizeAzimuth(180 * Scale) = 180 * Scale

\* atan2 returned a negative angle and the azimuth is in the upper half
W_C12_NegativeAtan ==
    /\ Displayed
    /\ azimuthRadians(dateToJulianDay(selectedDate), userLocation.lat, userLocation.lng) < 0
    /\ lunarPosition.azimuth > 180 * Scale

\* card i of the forecast holds what calculateMoonPhase returns for its
\* date now
CardIsCurrent(i) ==
    LET data == calculateMoonPhase(forecast[i].date)
    IN  forecast[i].phase = data.phase /\ forecast[i].illumination = data.illumination

\* C13: a second call of calculateMoonPhase, calculateMoonTimes or
\* calculateLunarPosition with the arguments of an earlier call returns
\* what the earlier call returned, whatever handlers ran in between: the
\* results kept from the last updateDisplay and the last generateForecast
\* equal the results of calling again in the current state.
C13_SameArgumentsSameResults ==
    stage = "ready" =>
        /\ moonData = calculateMoonPhase(selectedDate)
        /\ moonTimes = calculateMoonTimes(selectedDate, userLocation.lat, userLocation.lng)
        /\ lunarPosition
               = calculateLunarPosition(selectedDate, userLocation.lat, userLocation.lng)
        /\ \A i \in 1 .. Len(forecast) : CardIsCurrent(i)

\* the forecast was generated for another date and the location has been
\* changed since the constructor: handlers ran between the calls
W_C13_HandlersBetweenCalls ==
    /\ Displayed
    /\ Len(forecast) = 7
    /\ forecast[1].date # setDate(selectedDate, selectedDate.day + 1)
    /\ userLocation.lat # 407128
    /\ \A i \in 1 .. 7 : CardIsCurrent(i)

\* the locations and dates the handlers themselves assign
AssignedLocations ==
    {[lat |-> lat.num, lng |-> lng.num] : lat \in LatInputs, lng \in LngInputs}
        \cup {[lat |-> lat, lng |-> lng] : lat \in GeoLats, lng \in GeoLngs}
AssignedDates ==
    InputDates \cup ClockDates
        \cup {setDate(selectedDate, selectedDate.day + offset) : offset \in NavOffsets}
        \cup {forecast[i].date : i \in 1 .. Len(forecast)}

\* C14: the engine functions only read.  A step leaves astroConstants,
\* moonPhases and the element cache as they were; userLocation and
\* selectedDate change only to the value the handler itself assigns, a step
\* that changes one leaves the other alone, and a location step leaves the
\* forecast alone.
C14_EngineOnlyReads ==
    [][ /\ astroConstants' = astroConstants
        /\ moonPhases' = moonPhases
        /\ elements' = elements
        /\ userLocation' # userLocation =>
              /\ userLocation' \in AssignedLocations
              /\ selectedDate' = selectedDate
              /\ forecast' = forecast
        /\ selectedDate' # selectedDate =>
              /\ selectedDate' \in AssignedDates
              /\ userLocation' = userLocation ]_vars

\* the engine has run for a date and a location other than the initial ones,
\* and both are still what the handlers assigned
W_C14_InputsKept ==
    /\ Displayed
    /\ selectedDate = Date(2000, 0, 7)
    /\ userLocation = [lat |-> 90 * Scale, lng |-> -180 * Scale]
    /\ forecast # <<>>

\* C15: astroConstants holds the values the constructor gave it, in every
\* reachable state.
C15_AstroConstantsUnchanged ==
    astroConstants =
        [ synodicMonth |-> 295306, siderealMonth |-> 273216, averageDistance |-> 384400,
          perigeeDistance |-> 356500, apogeeDistance |-> 406700, lunarRadius |-> 17374,
          j2000Epoch |-> 24515450, newMoonEpoch |-> 24515501 ]

\* handlers of every kind have run: the date and the location were changed,
\* a forecast was generated and the timers are set
W_C15_AfterHandlers ==
    /\ Displayed
    /\ selectedDate \notin ClockDates
    /\ userLocation \in {[lat |-> lat, lng |-> lng] : lat \in GeoLats, lng \in GeoLngs}
    /\ Len(forecast) = 7
    /\ realTime
    /\ astroConstants = AstroConstants

\* the names of the phases from New Moon through the waxing phases to Full
\* Moon and through the waning phases back
WaxingToWaning ==
    << "New Moon", "Waxing Crescent", "First Quarter", "Waxing Gibbous",
       "Full Moon", "Waning Gibbous", "Last Quarter", "Waning Crescent" >>

\* C16: moonPhases has exactly 8 entries, in waxing-to-waning order from New
\* Moon, and the angle of entry i (0-based) is i * 45, in every reachable
\* state.
C16_CatalogWellFormed ==
    /\ Len(moonPhases) = 8
    /\ \A i \in 0 .. 7 :
          /\ moonPhasesAt(i).angle = i * 45
          /\ moonPhasesAt(i).name = WaxingToWaning[i + 1]

\* the last entry of the catalog has been read for the display
W_C16_LastEntryDisplayed ==
    /\ Displayed
    /\ moonData.phaseIndex = 7
    /\ moonData.phase = "Waning Crescent"
    /\ moonData.nextPhase = "New Moon"

\* C17: the nextPhase calculateMoonPhase returns is the catalog entry at
\* (phaseIndex + 1) mod 8, the cyclic successor of the returned phase, and
\* is never undefined.
C17_NextPhaseIsSuccessor ==
    stage = "ready" =>
        /\ moonData.nextPhase # Undefined.name
        /\ moonData.nextPhase = moonPhasesAt((moonData.phaseIndex + 1) % 8).name

\* C18: daysToNextPhase is greater than 0 and at most synodicMonth / 8, also
\* for dates before the new-moon epoch.
C18_DaysToNextPhaseInRange ==
    stage = "ready" =>
        /\ daysToNextPhase(daysSinceNewMoon(dateToJulianDay(selectedDate)))
               \in 1 .. astroConstants.synodicMonth \div 8
        /\ moonData.daysToNext <= MathRound(astroConstants.synodicMonth * 10, 8 * Scale) * (Scale \div 10)

\* C19: the rightAscension calculateLunarPosition returns is L brought into
\* [0, 360) degrees, also where L is negative.
C19_RightAscensionInRange ==
    stage = "ready" =>
        /\ lunarPosition.rightAscension \in 0 .. 360 * Scale - 1
        /\ Abs(lunarPosition.rightAscension
                  - (L(dateToJulianDay(selectedDate)) % (360 * Scale))) <= 60

\* C20: the best-viewing time calculateMoonTimes formats is
\* ((riseRaw + setRaw) / 2) mod 24 of the normalized riseRaw and setRaw.
C20_BestViewingIsMidpoint ==
    stage = "ready" =>
        moonTimes.bestViewing
            = ((moonTimes.riseRaw + moonTimes.setRaw) \div 2) % (24 * Scale)

\* the rise time was negative before its normalization, and the set time
\* was not: the midpoint of the raw times is not that of the normalized ones
W_C20_RiseNormalized ==
    /\ Displayed
    /\ riseTime(selectedDate, userLocation.lat, userLocation.lng) < 0
    /\ setTime(riseTime(selectedDate, userLocation.lat, userLocation.lng)) >= 0
    /\ moonTimes.bestViewing = (moonTimes.riseRaw + moonTimes.setRaw) \div 2

\* C21: the best-viewing time is the midpoint of the above-horizon interval
\* from riseRaw to setRaw on the 24-hour clock:
\* (bestViewing - riseRaw) mod 24 = 6.2, also when setRaw < riseRaw.
C21_BestViewingIsTransit ==
    stage = "ready" =>
        (moonTimes.bestViewing - moonTimes.riseRaw) % (24 * Scale) = 62 * (Scale \div 10)

\* what the specification gives for the hour h = floor(hours)
ExpectedDisplayHour(h) == IF h = 0 THEN 12 ELSE IF h > 12 THEN h - 12 ELSE h
ExpectedPeriod(h) == IF h < 12 THEN "AM" ELSE "PM"

\* the value of a two-digit text
MinutesValue(digits) == digits[1] * 10 + digits[2]

FormatsAsSpecified(hours) ==
    LET t == formatTime(hours)
        h == hours \div Scale
    IN  /\ t.displayHour = ExpectedDisplayHour(h)
        /\ t.displayHour \in 1 .. 12
        /\ t.period = ExpectedPeriod(h)
        /\ Len(t.minutes) = 2
        /\ \A i \in 1 .. 2 : t.minutes[i] \in 0 .. 9
        /\ MinutesValue(t.minutes) = ((hours - h * Scale) * 60) \div Scale
        /\ MinutesValue(t.minutes) \in 0 .. 59

\* every minute of the day, and the last instant before every full hour
SweepFormatTime ==
    /\ \A k \in 0 .. 24 * 60 - 1 : FormatsAsSpecified((k * Scale) \div 60)
    /\ \A h \in 1 .. 24 : FormatsAsSpecified(h * Scale - 1)

\* C22: for hours in [0, 24) formatTime gives display hour 12 for hour 0,
\* hour - 12 above 12, else the hour; AM exactly below 12; the minutes
\* floor(fraction * 60) as two digits.  The display hour is in 1..12, the
\* minutes in 00..59, noon is 12:00 PM and midnight 12:00 AM.
C22_FormatTime ==
    /\ SweepFormatTime
    /\ formatTime(12 * Scale) = [displayHour |-> 12, minutes |-> <<0, 0>>, period |-> "PM"]
    /\ formatTime(0) = [displayHour |-> 12, minutes |-> <<0, 0>>, period |-> "AM"]
    /\ stage = "ready" =>
          /\ moonTimes.rise = formatTime(moonTimes.riseRaw)
          /\ moonTimes.set = formatTime(moonTimes.setRaw)
          /\ moonTimes.bestViewingTime = formatTime(moonTimes.bestViewing)
          /\ FormatsAsSpecified(moonTimes.riseRaw)
          /\ FormatsAsSpecified(moonTimes.setRaw)
          /\ FormatsAsSpecified(moonTimes.bestViewing)

\* a rise in the hour after noon with minutes below ten and a set in the hour
\* after midnight are displayed
W_C22_NoonAndMidnightHours ==
    /\ Displayed
    /\ moonTimes.rise.displayHour = 12 /\ moonTimes.rise.period = "PM"
    /\ moonTimes.rise.minutes[1] = 0
    /\ moonTimes.set.displayHour = 12 /\ moonTimes.set.period = "AM"

\* the coordinates the specification lets updateLocation accept
InRange(lat, lng) ==
    /\ lat \in -90 * Scale .. 90 * Scale
    /\ lng \in -180 * Scale .. 180 * Scale

\* C23: updateLocation changes userLocation only when both fields hold
\* numbers with the latitude in [-90, 90] and the longitude in [-180, 180],
\* and then to exactly these numbers; for any other input userLocation and
\* the display stay as they were and no updateDisplay runs (none can
\* throw).  The latitude and longitude of userLocation are in range in every
\* reachable state.
C23_LocationValidated ==
    /\ [](InRange(userLocation.lat, userLocation.lng))
    /\ [][ \A lat \in LatInputs, lng \in LngInputs :
              \/ IF ~isNaN(lat) /\ ~isNaN(lng) /\ InRange(lat.num, lng.num)
                 THEN userLocation' = [lat |-> lat.num, lng |-> lng.num]
                 ELSE /\ UNCHANGED <<userLocation, moonData, moonTimes, lunarPosition>>
                      /\ ~failed'
              \/ ~updateLocation(lat, lng) ]_vars

\* updateLocation has accepted the extreme coordinates and the display
\* shows the results for them
W_C23_ExtremesAccepted ==
    /\ Displayed
    /\ userLocation = [lat |-> -90 * Scale, lng |-> 180 * Scale]

\* the calendar day after the date: setDate(getDate() + 1)
NextDay(date) == setDate(date, date.day + 1)

\* every day of the swept years and the day after it
SweepNextDay ==
    \A y \in SweepYears : \A m \in 0 .. 11 : \A d \in 1 .. DaysInMonth(y, m) :
        dateToJulianDay(NextDay(Date(y, m, d))) = dateToJulianDay(Date(y, m, d)) + 1

\* C24: dateToJulianDay grows by exactly 1 from any calendar day to the
\* next (every day of the swept years: month ends, year ends, 28 and 29
\* February, the century years 1900 and 2000), and navigateDay(k) changes
\* the Julian Day of selectedDate by exactly k.
C24_JulianDayStepsByOne ==
    /\ [](SweepNextDay)
    /\ [][ \A offset \in NavOffsets :
              \/ dateToJulianDay(selectedDate') = dateToJulianDay(selectedDate) + offset
              \/ ~navigateDay(offset) ]_vars

\* the display shows a day next to the year end 1999/2000 that only
\* navigateDay leads to
W_C24_NavigatedNearYearEnd ==
    /\ Displayed
    /\ selectedDate = Date(1999, 11, 30)

\* the grid holds exactly the seven cards of the days after the date, in
\* order
IsForecastOf(cards, date) ==
    /\ Len(cards) = 7
    /\ \A i \in 1 .. 7 : cards[i].date = setDate(date, date.day + i)

C25_CardShowsLatestValue ==
    (elements /\ timers = <<>> /\ lastValue # NoCall) => textContent = lastValue

\* C27: zoomMoon toggles: with the camera at z = 8 (where initialization and
\* resetMoonView put it) a zoomMoon call moves it to 5 and shows 'Zoom in',
\* with the camera at z = 5 it moves it to 8 and shows 'Zoom out'.
C27_ZoomAlternates ==
    [][ \/ ~zoomMoon
        \/ moonCamera.null
        \/ /\ moonCamera.value = 8 => (moonCamera'.value = 5 /\ toast' = "Zoom in")
           /\ moonCamera.value = 5 => (moonCamera'.value = 8 /\ toast' = "Zoom out") ]_vars

====
